---- MODULE Spec2Model ----
(***************************************************************************)
(* Model of py_scripts/gen_host_vars.py: the device catalog, the hostname  *)
(* classifier, the host_vars / group_vars builders, the inventory writer   *)
(* and the run of main() over a file system whose writes may fail.         *)
(*                                                                         *)
(* Text is modelled as follows.  A hostname is a sequence of one-character *)
(* strings, so that Python's substring test is computed position by        *)
(* position.  Every other string of the program is an atomic string.       *)
(* Python values of different types are tagged one-field records           *)
(* ([str |-> ..], [int |-> ..], [none |-> TRUE], ...).  A dict is the      *)
(* sequence of its entries in insertion order.                             *)
(***************************************************************************)
EXTENDS Integers, Sequences, FiniteSets, TLC

VARIABLES
    device,     \* the device record handed to a pure function
    result,     \* what the last call of a pure function returned
    devices,    \* the device list handed to create_inventory_file / main
    fs,         \* output path -> [exists, data]: the files on disk
    dirs,       \* the set of output directories that exist
    pc,         \* the position of the program: [status, fn, step, i, caller]
    runs,       \* number of runs of main() started so far
    before,     \* fs when the current run started
    wrote,      \* path -> what the current run completely wrote there
    first       \* fs when the first successful run completed

vars == <<device, result, devices, fs, dirs, pc, runs, before, wrote, first>>

---------------------------------------------------------------------------
(* Bounds *)

\* hostnames given to the pure functions are built of at most MaxFrags fragments
MaxFrags == 3
\* at most MaxStale output paths hold foreign content before the first run
MaxStale == 2
\* main() is run at most MaxRuns times
MaxRuns == 2
\* device lists given to create_inventory_file alone have at most MaxDevices records
MaxDevices == 3

---------------------------------------------------------------------------
(* Python values *)

None == [none |-> TRUE]
PyStr(s) == [str |-> s]
PyInt(n) == [int |-> n]
Chars(h) == [chars |-> h]
FStr(parts) == [fstr |-> parts]
PyList(items) == [list |-> items]
PyDict(entries) == [dict |-> entries]
Entry(k, v) == [key |-> k, val |-> v]

IsNone(v) == DOMAIN v = {"none"}

\* Python truthiness of None, a str or a list
Truthy(v) ==
    IF IsNone(v) THEN FALSE
    ELSE IF DOMAIN v = {"str"} THEN v.str # ""
    ELSE IF DOMAIN v = {"list"} THEN v.list # <<>>
    ELSE TRUE

\* d[k] = v on an insertion-ordered dict: replace in place, else append
DictSet(d, k, v) ==
    IF \E i \in 1..Len(d) : d[i].key = k
    THEN [i \in 1..Len(d) |-> IF d[i].key = k THEN Entry(k, v) ELSE d[i]]
    ELSE Append(d, Entry(k, v))

RECURSIVE DictUpdate(_, _)
\* d.update(e): the entries of e, in order
DictUpdate(d, e) ==
    IF e = <<>> THEN d
    ELSE DictUpdate(DictSet(d, Head(e).key, Head(e).val), Tail(e))

DictHas(d, k) == \E i \in 1..Len(d) : d[i].key = k
DictGet(d, k) == d[CHOOSE i \in 1..Len(d) : d[i].key = k].val

RECURSIVE FindFrom(_, _, _)
\* the scan behind  pat in s : the first position from i where pat starts
FindFrom(pat, s, i) ==
    IF i + Len(pat) - 1 > Len(s) THEN FALSE
    ELSE IF SubSeq(s, i, i + Len(pat) - 1) = pat THEN TRUE
    ELSE FindFrom(pat, s, i + 1)

\* Python's  pat in s  on strings
StrIn(pat, s) == FindFrom(pat, s, 1)

---------------------------------------------------------------------------
(* The device catalog *)

Dub == <<"d", "u", "b">>
Ssp(n) == Dub \o <<"-", "s", "s", "p", n>>
Sp(b, n) == Dub \o <<"-", "s", "t", b, "-", "s", "p", n>>
Lf(b, n) == Dub \o <<"-", "s", "t", b, "-", "l", "f", n>>

Device(h, l0, l1, m) == [hostname |-> h, loopback0 |-> l0, loopback1 |-> l1, mgmt |-> m]

devices_data == <<
    Device(Ssp("1"), "10.10.10.1", "20.20.20.1", "1.1.1.1"),
    Device(Ssp("2"), "10.10.10.2", "20.20.20.2", "1.1.1.2"),
    Device(Ssp("3"), "10.10.10.3", "20.20.20.3", "1.1.1.3"),
    Device(Ssp("4"), "10.10.10.4", "20.20.20.4", "1.1.1.4"),
    Device(Sp("1", "1"), "10.10.10.5", "20.20.20.5", "1.1.1.5"),
    Device(Sp("1", "2"), "10.10.10.6", "20.20.20.6", "1.1.1.6"),
    Device(Lf("1", "1"), "10.10.10.11", "20.20.20.11", "1.1.1.11"),
    Device(Lf("1", "2"), "10.10.10.12", "20.20.20.12", "1.1.1.12"),
    Device(Sp("2", "1"), "10.10.10.7", "20.20.20.7", "1.1.1.7"),
    Device(Sp("2", "2"), "10.10.10.8", "20.20.20.8", "1.1.1.8"),
    Device(Lf("2", "1"), "10.10.10.13", "20.20.20.13", "1.1.1.13"),
    Device(Lf("2", "2"), "10.10.10.14", "20.20.20.14", "1.1.1.14"),
    Device(Sp("3", "1"), "10.10.10.9", "20.20.20.9", "1.1.1.9"),
    Device(Sp("3", "2"), "10.10.10.10", "20.20.20.10", "1.1.1.10"),
    Device(Lf("3", "1"), "10.10.10.15", "20.20.20.15", "1.1.1.15"),
    Device(Lf("3", "2"), "10.10.10.16", "20.20.20.16", "1.1.1.16")
>>

---------------------------------------------------------------------------
(* The classifier *)

PatSsp == <<"-", "s", "s", "p">>
PatSp == <<"-", "s", "p">>
PatLf == <<"-", "l", "f">>
PatSt(b) == <<"-", "s", "t", b, "-">>

\* a slip that tests the leaf pattern before the spine pattern
determine_device_type_leaf_first(hostname) ==
    IF StrIn(PatSsp, hostname) THEN "superspine"
    ELSE IF StrIn(PatLf, hostname) THEN "leaf"
    ELSE IF StrIn(PatSp, hostname) /\ ~StrIn(PatSsp, hostname) THEN "spine"
    ELSE "unknown"

\* a slip that tests the bare spine pattern first
determine_device_type_bare_spine_first(hostname) ==
    IF StrIn(PatSp, hostname) THEN "spine"
    ELSE IF StrIn(PatSsp, hostname) THEN "superspine"
    ELSE IF StrIn(PatLf, hostname) THEN "leaf"
    ELSE "unknown"

\* a slip that drops the superspine pattern
determine_device_type_no_ssp(hostname) ==
    IF StrIn(PatSp, hostname) /\ ~StrIn(PatSsp, hostname) THEN "spine"
    ELSE IF StrIn(PatLf, hostname) THEN "leaf"
    ELSE "unknown"

determine_device_type(hostname) ==
    IF StrIn(PatSsp, hostname) THEN "superspine"
    ELSE IF StrIn(PatSp, hostname) /\ ~StrIn(PatSsp, hostname) THEN "spine"
    ELSE IF StrIn(PatLf, hostname) THEN "leaf"
    ELSE "unknown"

extract_building(hostname) ==
    IF StrIn(PatSt("1"), hostname) THEN PyStr("st1")
    ELSE IF StrIn(PatSt("2"), hostname) THEN PyStr("st2")
    ELSE IF StrIn(PatSt("3"), hostname) THEN PyStr("st3")
    ELSE None

vlan_mapping == <<
    Entry(PyStr("st1"), <<100, 200, 300>>),
    Entry(PyStr("st2"), <<200, 300, 400>>),
    Entry(PyStr("st3"), <<100, 300, 400>>)
>>

\* a slip in the table: building st3 loses VLAN 400 to VLAN 200
get_building_vlans_slip(building) ==
    IF building = PyStr("st3") THEN <<100, 200, 300>>
    ELSE IF DictHas(vlan_mapping, building) THEN DictGet(vlan_mapping, building)
    ELSE <<>>

get_building_vlans(building) ==
    IF DictHas(vlan_mapping, building) THEN DictGet(vlan_mapping, building) ELSE <<>>

---------------------------------------------------------------------------
(* The variable builder *)

\* [vlan, ...] as a Python list of ints
IntList(vlans) == PyList([i \in 1..Len(vlans) |-> PyInt(vlans[i])])

RECURSIVE VniComprehension(_, _)
\* {vlan: vlan + 10000 for vlan in building_vlans}, built onto acc
VniComprehension(acc, vlans) ==
    IF vlans = <<>> THEN acc
    ELSE VniComprehension(DictSet(acc, PyInt(Head(vlans)), PyInt(Head(vlans) + 10000)),
                          Tail(vlans))

\* a slip in the comprehension: the offset loses a digit
vni_mappings_of_slip(building_vlans) ==
    PyDict([i \in 1..Len(building_vlans) |->
               Entry(PyInt(building_vlans[i]), PyInt(building_vlans[i] + 1000))])

vni_mappings_of(building_vlans) == PyDict(VniComprehension(<<>>, building_vlans))

base_host_vars(dev, device_type) == <<
    Entry(PyStr("# Device identification"), None),
    Entry(PyStr("hostname"), Chars(dev.hostname)),
    Entry(PyStr("device_type"), PyStr(device_type)),
    Entry(PyStr("router_id"), PyStr(dev.loopback0)),
    Entry(PyStr("# Routing parameters"), None),
    Entry(PyStr("ospf_process_id"), PyInt(1)),
    Entry(PyStr("ospf_area"), PyStr("0.0.0.0")),
    Entry(PyStr("bgp_asn"), PyInt(65001))
>>

superspine_host_vars(dev) == <<
    Entry(PyStr("# BGP Route Reflector role"), None),
    Entry(PyStr("bgp_role"), PyStr("route_reflector")),
    Entry(PyStr("route_reflector_cluster_id"), PyStr("1.1.1.1")),
    Entry(PyStr("# Loopback interfaces (RR only)"), None),
    Entry(PyStr("loopback_interfaces"), PyDict(<<
        Entry(PyStr("loopback0"), PyDict(<<
            Entry(PyStr("description"), PyStr("Router-ID for OSPF and BGP Route Reflector")),
            Entry(PyStr("ip_address"), FStr(<<dev.loopback0, "/32">>))
        >>))
    >>))
>>

\* a slip that takes the VTEP address from the first loopback
vtep_host_vars_slip(dev) == <<
    Entry(PyStr("# VTEP configuration"), None),
    Entry(PyStr("vtep_ip"), PyStr(dev.loopback0)),
    Entry(PyStr("bgp_role"), PyStr("route_reflector_client")),
    Entry(PyStr("# Loopback interfaces (VTEP enabled)"), None),
    Entry(PyStr("loopback_interfaces"), PyDict(<<
        Entry(PyStr("loopback0"), PyDict(<<
            Entry(PyStr("description"), PyStr("Router-ID for OSPF and BGP")),
            Entry(PyStr("ip_address"), FStr(<<dev.loopback0, "/32">>))
        >>)),
        Entry(PyStr("loopback1"), PyDict(<<
            Entry(PyStr("description"), PyStr("VTEP Loopback for VXLAN")),
            Entry(PyStr("ip_address"), FStr(<<dev.loopback1, "/32">>))
        >>))
    >>))
>>

vtep_host_vars(dev) == <<
    Entry(PyStr("# VTEP configuration"), None),
    Entry(PyStr("vtep_ip"), PyStr(dev.loopback1)),
    Entry(PyStr("bgp_role"), PyStr("route_reflector_client")),
    Entry(PyStr("# Loopback interfaces (VTEP enabled)"), None),
    Entry(PyStr("loopback_interfaces"), PyDict(<<
        Entry(PyStr("loopback0"), PyDict(<<
            Entry(PyStr("description"), PyStr("Router-ID for OSPF and BGP")),
            Entry(PyStr("ip_address"), FStr(<<dev.loopback0, "/32">>))
        >>)),
        Entry(PyStr("loopback1"), PyDict(<<
            Entry(PyStr("description"), PyStr("VTEP Loopback for VXLAN")),
            Entry(PyStr("ip_address"), FStr(<<dev.loopback1, "/32">>))
        >>))
    >>))
>>

generate_host_vars(dev) ==
    LET hostname == dev.hostname
        device_type == determine_device_type(hostname)
        building == extract_building(hostname)
        hv0 == base_host_vars(dev, device_type)
        hv1 == IF device_type = "superspine"
               THEN DictUpdate(hv0, superspine_host_vars(dev))
               ELSE DictUpdate(hv0, vtep_host_vars(dev))
        building_vlans == get_building_vlans(building)
        hv2 == DictUpdate(hv1, <<
                   Entry(PyStr("# Building-specific configuration"), None),
                   Entry(PyStr("building"), building),
                   Entry(PyStr("vlans"), IntList(building_vlans))
               >>)
        hv3 == IF device_type \in {"spine", "leaf"} /\ building_vlans # <<>>
               THEN DictUpdate(hv2, <<
                        Entry(PyStr("# VLAN to VNI mappings"), None),
                        Entry(PyStr("vni_mappings"), vni_mappings_of(building_vlans))
                    >>)
               ELSE hv2
    IN  IF Truthy(building) THEN hv3 ELSE hv1

group_vars == <<
    Entry(PyStr("# Global network parameters"), None),
    Entry(PyStr("ospf_process_id"), PyInt(1)),
    Entry(PyStr("ospf_area"), PyStr("0.0.0.0")),
    Entry(PyStr("bgp_asn"), PyInt(65001)),
    Entry(PyStr("# VXLAN global settings"), None),
    Entry(PyStr("vxlan_udp_port"), PyInt(4789)),
    Entry(PyStr("multicast_group"), PyStr("239.1.1.1")),
    Entry(PyStr("# Global VLAN to VNI mappings"), None),
    Entry(PyStr("global_vni_mappings"), PyDict(<<
        Entry(PyInt(100), PyInt(10100)),
        Entry(PyInt(200), PyInt(10200)),
        Entry(PyInt(300), PyInt(10300)),
        Entry(PyInt(400), PyInt(10400))
    >>)),
    Entry(PyStr("# Building VLAN assignments"), None),
    Entry(PyStr("building_vlans"), PyDict(<<
        Entry(PyStr("st1"), IntList(<<100, 200, 300>>)),
        Entry(PyStr("st2"), IntList(<<200, 300, 400>>)),
        Entry(PyStr("st3"), IntList(<<100, 300, 400>>))
    >>)),
    Entry(PyStr("# VLAN stretching design"), None),
    Entry(PyStr("vlan_stretching"), PyDict(<<
        Entry(PyInt(100), PyList(<<PyStr("st1"), PyStr("st3")>>)),
        Entry(PyInt(200), PyList(<<PyStr("st1"), PyStr("st2")>>)),
        Entry(PyInt(300), PyList(<<PyStr("st1"), PyStr("st2"), PyStr("st3")>>)),
        Entry(PyInt(400), PyList(<<PyStr("st2"), PyStr("st3")>>))
    >>)),
    Entry(PyStr("# Route reflector settings"), None),
    Entry(PyStr("route_reflector_cluster_id"), PyStr("1.1.1.1")),
    Entry(PyStr("# Ansible connection parameters"), None),
    Entry(PyStr("ansible_user"), PyStr("admin")),
    Entry(PyStr("ansible_password"), PyStr("Firelab33")),
    Entry(PyStr("ansible_network_os"), PyStr("cisco.nxos.nxos")),
    Entry(PyStr("ansible_connection"), PyStr("ansible.netcommon.network_cli")),
    Entry(PyStr("ansible_ssh_common_args"), PyStr("-o StrictHostKeyChecking=no"))
>>

---------------------------------------------------------------------------
(* Inputs of the pure functions *)

Fragments == {<<"-">>, <<"s">>, <<"p">>, PatSsp, PatSp, PatLf,
              <<"-", "s", "t", "1">>, <<"-", "s", "t", "2">>, <<"-", "s", "t", "3">>}

RECURSIVE Hostnames(_)
\* the hostnames made of at most n fragments
Hostnames(n) ==
    IF n = 0 THEN {<<>>}
    ELSE LET prev == Hostnames(n - 1)
         IN  prev \cup {h \o f : h \in prev, f \in Fragments}

HostnameInputs == Hostnames(MaxFrags)

LoopbackInputs == {<<"10.10.10.21", "20.20.20.21">>, <<"20.20.20.22", "10.10.10.22">>}

CatalogDevices == {devices_data[i] : i \in 1..Len(devices_data)}

DeviceInputs ==
    CatalogDevices \cup
    {Device(h, l[1], l[2], "1.1.1.99") : h \in HostnameInputs, l \in LoopbackInputs}

BuildingInputs == {PyStr("st1"), PyStr("st2"), PyStr("st3"), PyStr("st4"), PyStr(""), None}

NoResult == [op |-> "none", arg |-> None, val |-> None]

---------------------------------------------------------------------------
(* The file system *)

HostVarsPath(hostname) == [dir |-> "host_vars", stem |-> hostname, ext |-> ".yml"]
GroupVarsPath == [dir |-> "group_vars", stem |-> <<"a", "l", "l">>, ext |-> ".yml"]
InventoryPath == [dir |-> ".", stem |-> <<"i", "n", "v", "e", "n", "t", "o", "r", "y">>, ext |-> ".ini"]
ReadmePath == [dir |-> ".", stem |-> <<"R", "E", "A", "D", "M", "E">>, ext |-> ".md"]

HostVarsPaths == {HostVarsPath(devices_data[i].hostname) : i \in 1..Len(devices_data)}
OutputPaths == HostVarsPaths \cup {GroupVarsPath, InventoryPath, ReadmePath}

Absent == [exists |-> FALSE, data |-> <<>>]
File(data) == [exists |-> TRUE, data |-> data]
NotWritten == [written |-> FALSE, data |-> <<>>]
Written(data) == [written |-> TRUE, data |-> data]

EmptyFs == [p \in OutputPaths |-> Absent]
NothingWritten == [p \in OutputPaths |-> NotWritten]

Idle == [status |-> "idle", fn |-> "", step |-> "", i |-> 0, caller |-> ""]

---------------------------------------------------------------------------
(* File contents: a file is a sequence of lines, a line a sequence of tokens *)

Indent(n) == [indent |-> n]
TextLine(text) == <<PyStr(text)>>
CommentLine(text) == <<PyStr("# "), PyStr(text)>>
BlankLine == <<>>

IsScalar(v) == DOMAIN v \in {{"str"}, {"int"}, {"chars"}, {"fstr"}}

\* the order PyYAML's sort_keys gives the str keys of the nested mappings
StrKeyOrder == <<"description", "ip_address", "loopback0", "loopback1", "st1", "st2", "st3">>
StrRank(s) == CHOOSE i \in 1..Len(StrKeyOrder) : StrKeyOrder[i] = s

KeyLess(a, b) ==
    IF DOMAIN a = {"int"} /\ DOMAIN b = {"int"} THEN a.int < b.int
    ELSE IF DOMAIN a = {"str"} /\ DOMAIN b = {"str"} THEN StrRank(a.str) < StrRank(b.str)
    ELSE FALSE

RECURSIVE InsertSorted(_, _)
InsertSorted(sorted, e) ==
    IF sorted = <<>> THEN <<e>>
    ELSE IF KeyLess(e.key, Head(sorted).key) THEN <<e>> \o sorted
    ELSE <<Head(sorted)>> \o InsertSorted(Tail(sorted), e)

RECURSIVE SortByKey(_)
\* the entries of a mapping in the order yaml.dump emits them (sort_keys)
SortByKey(entries) ==
    IF entries = <<>> THEN <<>>
    ELSE InsertSorted(SortByKey(SubSeq(entries, 1, Len(entries) - 1)), entries[Len(entries)])

RECURSIVE YamlLines(_, _, _)
RECURSIVE YamlMapLines(_, _)
\* yaml.dump of  key: value  in block style at the given indentation
YamlLines(key, value, indent) ==
    IF IsScalar(value) THEN << <<Indent(indent), key, PyStr(": "), value>> >>
    ELSE IF DOMAIN value = {"list"} THEN
        IF value.list = <<>> THEN << <<Indent(indent), key, PyStr(": "), PyStr("[]")>> >>
        ELSE << <<Indent(indent), key, PyStr(":")>> >> \o
             [i \in 1..Len(value.list) |-> <<Indent(indent), PyStr("- "), value.list[i]>>]
    ELSE IF value.dict = <<>> THEN << <<Indent(indent), key, PyStr(": "), PyStr("{}")>> >>
    ELSE << <<Indent(indent), key, PyStr(":")>> >> \o
         YamlMapLines(SortByKey(value.dict), indent + 2)

YamlMapLines(entries, indent) ==
    IF entries = <<>> THEN <<>>
    ELSE YamlLines(Head(entries).key, Head(entries).val, indent)
         \o YamlMapLines(Tail(entries), indent)

RECURSIVE RenderEntries(_)
\* the loop over .items(): a comment entry as a blank line and its text,
\* any other entry through yaml.dump
RenderEntries(entries) ==
    IF entries = <<>> THEN <<>>
    ELSE LET e == Head(entries)
         IN  (IF IsNone(e.val) THEN <<BlankLine, <<e.key>> >>
              ELSE YamlLines(e.key, e.val, 0))
             \o RenderEntries(Tail(entries))

\* what the writers of host_vars/<hostname>.yml and group_vars/all.yml emit
RenderVars(entries) == <<TextLine("---")>> \o RenderEntries(entries)

---------------------------------------------------------------------------
(* The pure functions, called on bounded inputs *)

InitPure ==
    /\ device \in DeviceInputs
    /\ result = NoResult
    /\ devices = <<>>
    /\ fs = EmptyFs
    /\ dirs = {}
    /\ pc = Idle
    /\ runs = 0
    /\ before = EmptyFs
    /\ wrote = NothingWritten
    /\ first = EmptyFs

\* one call per input: nothing has been called yet, and only result changes
PureCall ==
    /\ result = NoResult
    /\ UNCHANGED <<device, devices, fs, dirs, pc, runs, before, wrote, first>>

CallDetermineDeviceType ==
    /\ result' = [op |-> "determine_device_type", arg |-> Chars(device.hostname),
                  val |-> PyStr(determine_device_type(device.hostname))]
    /\ PureCall

CallExtractBuilding ==
    /\ result' = [op |-> "extract_building", arg |-> Chars(device.hostname),
                  val |-> extract_building(device.hostname)]
    /\ PureCall

CallGetBuildingVlans ==
    /\ \E b \in BuildingInputs :
          result' = [op |-> "get_building_vlans", arg |-> b,
                     val |-> IntList(get_building_vlans(b))]
    /\ PureCall

CallGenerateHostVars ==
    /\ result' = [op |-> "generate_host_vars", arg |-> Chars(device.hostname),
                  val |-> PyDict(generate_host_vars(device))]
    /\ PureCall

CallGroupVars ==
    /\ result' = [op |-> "create_group_vars", arg |-> None, val |-> PyDict(group_vars)]
    /\ PureCall

NextPure ==
    \/ CallDetermineDeviceType
    \/ CallExtractBuilding
    \/ CallGetBuildingVlans
    \/ CallGenerateHostVars
    \/ CallGroupVars

SpecPure == InitPure /\ [][NextPure]_vars

---------------------------------------------------------------------------
(* The inventory and the README *)

\* [d for d in devices if determine_device_type(d["hostname"]) == device_type]
RECURSIVE DevicesOfType(_, _)
DevicesOfType(devs, device_type) ==
    IF devs = <<>> THEN <<>>
    ELSE (IF determine_device_type(Head(devs).hostname) = device_type
          THEN <<Head(devs)>> ELSE <<>>)
         \o DevicesOfType(Tail(devs), device_type)

RECURSIVE GroupByBuilding(_, _)
\* the loop that appends each device with a building to buildings[building]
GroupByBuilding(buildings, devs) ==
    IF devs = <<>> THEN buildings
    ELSE LET building == extract_building(Head(devs).hostname)
         IN  GroupByBuilding(
                 IF Truthy(building)
                 THEN DictSet(buildings, building,
                              Append(DictGet(buildings, building), Head(devs)))
                 ELSE buildings,
                 Tail(devs))

\* device.get('mgmt', 'ansible_host_not_set')
MgmtOf(dev) == IF "mgmt" \in DOMAIN dev THEN dev.mgmt ELSE "ansible_host_not_set"

HostLine(dev) == <<Chars(dev.hostname), PyStr(" ansible_host="), PyStr(MgmtOf(dev))>>
HostLines(devs) == [i \in 1..Len(devs) |-> HostLine(devs[i])]
SectionLine(name) == <<PyStr("["), PyStr(name), PyStr("]")>>
ChildrenLine(name) == <<PyStr("["), PyStr(name), PyStr(":children"), PyStr("]")>>

BuildingSection(building, devices_in_building) ==
    IF devices_in_building # <<>>
    THEN <<BlankLine, SectionLine(building.str)>> \o HostLines(devices_in_building)
    ELSE <<>>

RECURSIVE BuildingSections(_)
BuildingSections(buildings) ==
    IF buildings = <<>> THEN <<>>
    ELSE BuildingSection(Head(buildings).key, Head(buildings).val)
         \o BuildingSections(Tail(buildings))

HierarchicalGroups == <<
    BlankLine,
    CommentLine("Hierarchical groups"),
    ChildrenLine("all"),
    TextLine("superspines"),
    TextLine("spines"),
    TextLine("leafs"),
    BlankLine,
    CommentLine("Device type groups for targeted playbook runs"),
    ChildrenLine("route_reflectors"),
    TextLine("superspines"),
    BlankLine,
    ChildrenLine("vtep_devices"),
    TextLine("spines"),
    TextLine("leafs"),
    BlankLine,
    CommentLine("Building groups for VLAN-specific deployments"),
    ChildrenLine("building_st1"),
    TextLine("st1"),
    BlankLine,
    ChildrenLine("building_st2"),
    TextLine("st2"),
    BlankLine,
    ChildrenLine("building_st3"),
    TextLine("st3")
>>

inventory_content(devs) ==
    LET superspines == DevicesOfType(devs, "superspine")
        spines == DevicesOfType(devs, "spine")
        leafs == DevicesOfType(devs, "leaf")
        buildings == GroupByBuilding(<<Entry(PyStr("st1"), <<>>),
                                       Entry(PyStr("st2"), <<>>),
                                       Entry(PyStr("st3"), <<>>)>>, devs)
    IN  <<CommentLine("Multi-Building Campus EVPN Lab Inventory"),
          CommentLine("4 Superspines + 3 Buildings with selective VLAN stretching"),
          BlankLine,
          SectionLine("superspines")>>
        \o HostLines(superspines)
        \o <<BlankLine, SectionLine("spines")>>
        \o HostLines(spines)
        \o <<BlankLine, SectionLine("leafs")>>
        \o HostLines(leafs)
        \o BuildingSections(buildings)
        \o HierarchicalGroups

\* the README is one literal, independent of the catalog; its first and last
\* lines stand for it
readme_content == <<
    TextLine("# Multi-Building Campus EVPN Lab"),
    TextLine("Generated Ansible files for your GNS3 lab topology."),
    TextLine("..."),
    TextLine("5. Add access layer configuration per building")
>>

---------------------------------------------------------------------------
(* main() and the writers, one action per directory creation or file write *)

\* a slip that writes the inventory before the group variables
MainCalls_swapped == <<"create_host_vars_files", "create_inventory_file",
                       "create_group_vars", "create_readme">>

\* the writers in the order main() calls them
MainCalls == <<"create_host_vars_files", "create_group_vars",
               "create_inventory_file", "create_readme">>

Done == [status |-> "done", fn |-> "", step |-> "", i |-> 0, caller |-> ""]
\* an uncaught exception at position at: the process ends there
Failed(at) == [at EXCEPT !.status = "failed"]

\* the first I/O of each writer
Enter(fn, caller) ==
    [status |-> "running",
     fn |-> fn,
     step |-> IF fn \in {"create_host_vars_files", "create_group_vars"} THEN "mkdir" ELSE "file",
     i |-> 1,
     caller |-> caller]

\* where control goes when the writer at position at returns
Return(at) ==
    IF at.caller = "main"
    THEN LET k == CHOOSE j \in 1..Len(MainCalls) : MainCalls[j] = at.fn
         IN  IF k < Len(MainCalls) THEN Enter(MainCalls[k + 1], "main") ELSE Done
    ELSE Done

\* open(path, 'a') instead of open(path, 'w')
OpenForWrite_append(old) == old.data

\* open(path, 'w'): the file is created or truncated
OpenForWrite(old) == <<>>

DirOf(fn) == IF fn = "create_host_vars_files" THEN "host_vars" ELSE "group_vars"

\* the file the program is about to write, and what it writes there
PathAt(at) ==
    IF at.fn = "create_host_vars_files" THEN HostVarsPath(devices[at.i].hostname)
    ELSE IF at.fn = "create_group_vars" THEN GroupVarsPath
    ELSE IF at.fn = "create_inventory_file" THEN InventoryPath
    ELSE ReadmePath

ContentAt(at) ==
    IF at.fn = "create_host_vars_files" THEN RenderVars(generate_host_vars(devices[at.i]))
    ELSE IF at.fn = "create_group_vars" THEN RenderVars(group_vars)
    ELSE IF at.fn = "create_inventory_file" THEN inventory_content(devices)
    ELSE readme_content

Running == pc.status = "running"

PureVars == <<device, result>>

\* main() is started: on a fresh file system, or again after a completed run
StartMain ==
    /\ pc \in {Idle, Done}
    /\ runs < MaxRuns
    /\ runs' = runs + 1
    /\ before' = fs
    /\ wrote' = NothingWritten
    /\ pc' = Enter(MainCalls[1], "main")
    /\ UNCHANGED <<PureVars, devices, fs, dirs, first>>

\* Path(dir).mkdir(exist_ok=True) succeeds
Mkdir ==
    /\ Running /\ pc.step = "mkdir"
    /\ dirs' = dirs \cup {DirOf(pc.fn)}
    /\ pc' = [pc EXCEPT !.step = "file"]
    /\ UNCHANGED <<PureVars, devices, fs, runs, before, wrote, first>>

\* with open(path, 'w') as f: ... succeeds, the whole file is written
WriteFile ==
    /\ Running /\ pc.step = "file"
    /\ LET path == PathAt(pc)
           data == OpenForWrite(fs[path]) \o ContentAt(pc)
           next == IF pc.fn = "create_host_vars_files" /\ pc.i < Len(devices)
                   THEN [pc EXCEPT !.i = pc.i + 1]
                   ELSE Return(pc)
       IN  /\ fs' = [fs EXCEPT ![path] = File(data)]
           /\ wrote' = [wrote EXCEPT ![path] = Written(data)]
           /\ pc' = next
           /\ first' = IF next = Done /\ runs = 1 THEN fs' ELSE first
    /\ UNCHANGED <<PureVars, devices, dirs, runs, before>>

\* mkdir raises: the exception propagates and ends the run
MkdirFails ==
    /\ Running /\ pc.step = "mkdir"
    /\ pc' = Failed(pc)
    /\ UNCHANGED <<PureVars, devices, fs, dirs, runs, before, wrote, first>>

\* open raises and the file is untouched, or a write raises and the file keeps
\* a proper prefix of the lines; the exception propagates and ends the run
WriteFileFails ==
    /\ Running /\ pc.step = "file"
    /\ LET path == PathAt(pc)
           data == OpenForWrite(fs[path]) \o ContentAt(pc)
       IN  \/ fs' = fs
           \/ \E n \in 0..(Len(data) - 1) :
                 fs' = [fs EXCEPT ![path] = File(SubSeq(data, 1, n))]
    /\ pc' = Failed(pc)
    /\ UNCHANGED <<PureVars, devices, dirs, runs, before, wrote, first>>

StaleData == <<TextLine("stale")>>

\* the directories that must exist for the files of f to exist
DirsOf(f) == {p.dir : p \in {q \in OutputPaths : f[q].exists}} \ {"."}

RECURSIVE SubsetsUpTo(_, _)
\* the subsets of S with at most n elements
SubsetsUpTo(S, n) ==
    IF n = 0 THEN {{}}
    ELSE LET smaller == SubsetsUpTo(S, n - 1)
         IN  smaller \cup {T \cup {x} : T \in smaller, x \in S}

\* the paths that may hold something else before the first run: the first, a
\* middle and the last host_vars file, and the three other outputs
StalePaths ==
    {HostVarsPath(devices_data[i].hostname) : i \in {1, 8, Len(devices_data)}}
    \cup {GroupVarsPath, InventoryPath, ReadmePath}

\* main() on the catalog, from a file system where at most MaxStale of the
\* stale paths already hold something else
Init ==
    /\ device = devices_data[1]
    /\ result = NoResult
    /\ devices = devices_data
    /\ \E S \in SubsetsUpTo(StalePaths, MaxStale) :
          fs = [p \in OutputPaths |-> IF p \in S THEN File(StaleData) ELSE Absent]
    /\ dirs = DirsOf(fs)
    /\ pc = Idle
    /\ runs = 0
    /\ before = fs
    /\ wrote = NothingWritten
    /\ first = EmptyFs

Next ==
    \/ StartMain
    \/ Mkdir
    \/ WriteFile
    \/ MkdirFails
    \/ WriteFileFails

Spec == Init /\ [][Next]_vars

---------------------------------------------------------------------------
(* create_inventory_file(devices) called alone on a bounded device list *)

DevicePool == {
    devices_data[1], devices_data[5], devices_data[11], devices_data[13],
    [hostname |-> Dub \o <<"-", "f", "w", "1">>,
     loopback0 |-> "10.10.10.31", loopback1 |-> "20.20.20.31"]
}

RECURSIVE DeviceLists(_)
\* the lists of at most n devices of the pool
DeviceLists(n) ==
    IF n = 0 THEN {<<>>}
    ELSE LET shorter == DeviceLists(n - 1)
         IN  shorter \cup {Append(l, d) : l \in shorter, d \in DevicePool}

InitInventory ==
    /\ device = devices_data[1]
    /\ result = NoResult
    /\ devices \in DeviceLists(MaxDevices)
    /\ fs \in {EmptyFs, [EmptyFs EXCEPT ![InventoryPath] = File(StaleData)]}
    /\ dirs = {}
    /\ pc = Enter("create_inventory_file", "")
    /\ runs = 0
    /\ before = fs
    /\ wrote = NothingWritten
    /\ first = EmptyFs

NextInventory ==
    \/ WriteFile
    \/ WriteFileFails

SpecInventory == InitInventory /\ [][NextInventory]_vars

---------------------------------------------------------------------------
(* Properties of the classifier and of the variable builder *)

\* pat occurs in s: some position of s starts a copy of pat
Occurs(pat, s) ==
    \E i \in 1..(Len(s) - Len(pat) + 1) : \A k \in 1..Len(pat) : s[i + k - 1] = pat[k]

Elems(seq) == {seq[i] : i \in 1..Len(seq)}

DeviceTypes == {"superspine", "spine", "leaf", "unknown"}

\* C1: determine_device_type is total and returns superspine when the hostname
\* contains "-ssp", else spine when it contains "-sp", else leaf when it contains
\* "-lf", else unknown; so "-ssp" wins over everything and "-sp" wins over "-lf".
C1_DeviceTypeByPrecedence ==
    result.op = "determine_device_type" =>
        LET h == device.hostname
            t == result.val
        IN  /\ t \in {PyStr(d) : d \in DeviceTypes}
            /\ t = PyStr(IF Occurs(PatSsp, h) THEN "superspine"
                         ELSE IF Occurs(PatSp, h) THEN "spine"
                         ELSE IF Occurs(PatLf, h) THEN "leaf"
                         ELSE "unknown")
            /\ (Occurs(PatSsp, h) => t = PyStr("superspine"))
            /\ (Occurs(PatSp, h) /\ Occurs(PatLf, h) /\ ~Occurs(PatSsp, h)
                    => t = PyStr("spine"))

\* a hostname with both "-sp" and "-lf" and no "-ssp" has been classified
C1_Witness ==
    /\ result.op = "determine_device_type"
    /\ Occurs(PatSp, device.hostname)
    /\ Occurs(PatLf, device.hostname)
    /\ ~Occurs(PatSsp, device.hostname)
    /\ result.val = PyStr("spine")

HostVarsOf(r) == r.val.dict
VniEntries(hv) ==
    IF DictHas(hv, PyStr("vni_mappings"))
    THEN Elems(DictGet(hv, PyStr("vni_mappings")).dict)
    ELSE {}
GlobalVni == DictGet(group_vars, PyStr("global_vni_mappings")).dict

\* C3: every entry of a device's vni_mappings and every entry of
\* global_vni_mappings has VNI = VLAN + 10000, and for a catalog device every
\* VLAN of its vni_mappings is a key of global_vni_mappings with the same VNI.
C3_VniIsVlanPlus10000 ==
    /\ result.op = "generate_host_vars" =>
          \A e \in VniEntries(HostVarsOf(result)) :
              /\ e.val.int = e.key.int + 10000
              /\ device \in CatalogDevices =>
                     /\ DictHas(GlobalVni, e.key)
                     /\ DictGet(GlobalVni, e.key) = e.val
    /\ result.op = "create_group_vars" =>
          \A e \in Elems(DictGet(HostVarsOf(result), PyStr("global_vni_mappings")).dict) :
              e.val.int = e.key.int + 10000

\* a catalog device of building st1 maps VLAN 300 to VNI 10300
C3_Witness ==
    /\ result.op = "generate_host_vars"
    /\ device \in CatalogDevices
    /\ extract_building(device.hostname) = PyStr("st1")
    /\ Entry(PyInt(300), PyInt(10300)) \in VniEntries(HostVarsOf(result))

\* C4: a superspine's HostVars hold no vtep_ip; a spine's or leaf's HostVars
\* hold a vtep_ip equal to the record's loopback1.
C4_VtepIpFollowsType ==
    result.op = "generate_host_vars" =>
        LET hv == HostVarsOf(result)
            t == determine_device_type(device.hostname)
        IN  /\ t = "superspine" => ~DictHas(hv, PyStr("vtep_ip"))
            /\ t \in {"spine", "leaf"} =>
                   /\ DictHas(hv, PyStr("vtep_ip"))
                   /\ DictGet(hv, PyStr("vtep_ip")) = PyStr(device.loopback1)

\* a leaf's HostVars carry its second loopback as vtep_ip
C4_Witness ==
    /\ result.op = "generate_host_vars"
    /\ determine_device_type(device.hostname) = "leaf"
    /\ device.loopback0 # device.loopback1
    /\ DictHas(HostVarsOf(result), PyStr("vtep_ip"))
    /\ DictGet(HostVarsOf(result), PyStr("vtep_ip")) = PyStr(device.loopback1)

HasRouteReflectorFields(hv) ==
    \/ DictHas(hv, PyStr("route_reflector_cluster_id"))
    \/ /\ DictHas(hv, PyStr("bgp_role"))
       /\ DictGet(hv, PyStr("bgp_role")) = PyStr("route_reflector")

HasVtepFields(hv) ==
    \/ DictHas(hv, PyStr("vtep_ip"))
    \/ /\ DictHas(hv, PyStr("bgp_role"))
       /\ DictGet(hv, PyStr("bgp_role")) = PyStr("route_reflector_client")
    \/ /\ DictHas(hv, PyStr("loopback_interfaces"))
       /\ DictHas(DictGet(hv, PyStr("loopback_interfaces")).dict, PyStr("loopback1"))

\* C7: the route-reflector fields are present only for a superspine, the VTEP
\* fields only for a spine or a leaf, and a device of unknown type has neither.
C7_RoleFieldsFollowType ==
    result.op = "generate_host_vars" =>
        LET hv == HostVarsOf(result)
            t == determine_device_type(device.hostname)
        IN  /\ HasRouteReflectorFields(hv) => t = "superspine"
            /\ HasVtepFields(hv) => t \in {"spine", "leaf"}
            /\ t = "unknown" => ~HasRouteReflectorFields(hv) /\ ~HasVtepFields(hv)

\* the classifier with the spine test moved before the superspine test
determine_device_type_spine_first(hostname) ==
    IF StrIn(PatSp, hostname) /\ ~StrIn(PatSsp, hostname) THEN "spine"
    ELSE IF StrIn(PatSsp, hostname) THEN "superspine"
    ELSE IF StrIn(PatLf, hostname) THEN "leaf"
    ELSE "unknown"

\* C9 as stated: some hostname, among the hostname at hand and all those the
\* inputs are drawn from, is classified differently once the spine test is
\* evaluated before the superspine test.
C9_OrderMatters ==
    \E h \in HostnameInputs \cup {device.hostname} :
        determine_device_type(h) # determine_device_type_spine_first(h)

\* C9 amended: the order of the superspine and spine tests does not matter;
\* every hostname gets the same type from the classifier and from its variant
\* that evaluates the spine test first.
C9_OrderDoesNotMatter ==
    result.op = "determine_device_type" =>
        result.val = PyStr(determine_device_type_spine_first(device.hostname))

\* a hostname holding both "-ssp" and "-sp" has been classified
C9_Witness ==
    /\ result.op = "determine_device_type"
    /\ Occurs(PatSsp, device.hostname)
    /\ Occurs(PatSp, device.hostname)
    /\ result.val = PyStr("superspine")

VlanStretching == DictGet(group_vars, PyStr("vlan_stretching")).dict
BuildingVlans == DictGet(group_vars, PyStr("building_vlans")).dict
\* the VLANs named anywhere in the tables, and two that are named nowhere
VlanUniverse ==
    {e.key.int : e \in Elems(VlanStretching)}
    \cup UNION {{v.int : v \in Elems(e.val.list)} : e \in Elems(BuildingVlans)}
    \cup UNION {Elems(e.val) : e \in Elems(vlan_mapping)}
    \cup {1, 500}

\* C10: building b is listed in vlan_stretching[v] exactly when v is in
\* get_building_vlans(b), and building_vlans[b] is get_building_vlans(b),
\* element for element.
C10_StretchingIsInverse ==
    result.op = "get_building_vlans"
      /\ result.arg \in {PyStr("st1"), PyStr("st2"), PyStr("st3")} =>
        LET b == result.arg
            vlans == result.val
        IN  /\ \A v \in VlanUniverse :
                   (/\ DictHas(VlanStretching, PyInt(v))
                    /\ b \in Elems(DictGet(VlanStretching, PyInt(v)).list))
                   <=> PyInt(v) \in Elems(vlans.list)
            /\ DictHas(BuildingVlans, b)
            /\ DictGet(BuildingVlans, b) = vlans

\* the VLAN list of building st3 has been looked up
C10_Witness ==
    /\ result.op = "get_building_vlans"
    /\ result.arg = PyStr("st3")
    /\ result.val = IntList(<<100, 300, 400>>)

---------------------------------------------------------------------------
(* Properties of the written files *)

\* reading an inventory back: section headers, group members, host entries
IsSectionHeader(line) ==
    Len(line) = 3 /\ line[1] = PyStr("[") /\ line[3] = PyStr("]")
IsChildrenHeader(line) ==
    Len(line) = 4 /\ line[1] = PyStr("[") /\ line[3] = PyStr(":children") /\ line[4] = PyStr("]")
IsHeader(line) == IsSectionHeader(line) \/ IsChildrenHeader(line)
IsHostEntry(line) == Len(line) = 3 /\ DOMAIN line[1] = {"chars"}
IsMember(line) == Len(line) = 1 /\ DOMAIN line[1] = {"str"}

\* the header line that line i of the file belongs to (0: none)
HeaderOf(lines, i) ==
    LET above == {j \in 1..(i - 1) : IsHeader(lines[j])}
    IN  IF above = {} THEN 0 ELSE CHOOSE j \in above : \A k \in above : k <= j

SectionNames(lines) == {lines[i][2].str : i \in {j \in 1..Len(lines) : IsSectionHeader(lines[j])}}

\* the positions of the host entries listed under section name
SectionEntries(lines, name) ==
    {i \in 1..Len(lines) :
        /\ IsHostEntry(lines[i])
        /\ HeaderOf(lines, i) # 0
        /\ lines[HeaderOf(lines, i)] = SectionLine(name)}

\* the groups named as a child of some [<group>:children] declaration
ChildrenNamed(lines) ==
    {lines[i][1].str : i \in {j \in 1..Len(lines) :
        /\ IsMember(lines[j])
        /\ HeaderOf(lines, j) # 0
        /\ IsChildrenHeader(lines[HeaderOf(lines, j)])}}

Inventory == fs[InventoryPath].data
TypeSections == {"superspines", "spines", "leafs"}

\* C2: every catalog device is superspine, spine or leaf, and the inventory that
\* create_inventory_file wrote for the catalog lists each hostname in exactly one
\* type section, with 4 superspines, 6 spines, 6 leafs and 4 devices in each of
\* [st1], [st2], [st3].
C2_CatalogInventory ==
    wrote[InventoryPath].written /\ devices = devices_data =>
        /\ \A d \in CatalogDevices :
               /\ determine_device_type(d.hostname) \in {"superspine", "spine", "leaf"}
               /\ Cardinality({t \in TypeSections :
                      \E i \in SectionEntries(Inventory, t) :
                          Inventory[i][1] = Chars(d.hostname)}) = 1
        /\ Cardinality(SectionEntries(Inventory, "superspines")) = 4
        /\ Cardinality(SectionEntries(Inventory, "spines")) = 6
        /\ Cardinality(SectionEntries(Inventory, "leafs")) = 6
        /\ \A b \in {"st1", "st2", "st3"} : Cardinality(SectionEntries(Inventory, b)) = 4

\* main() has written the inventory of the catalog and completed
C2_Witness ==
    /\ pc = Done
    /\ devices = devices_data
    /\ wrote[InventoryPath].written
    /\ fs[InventoryPath] = File(wrote[InventoryPath].data)
    /\ Cardinality(SectionEntries(Inventory, "superspines")) = 4

\* C5: once main() has completed, a further completed run of main() leaves
\* every output file existing, with the content the first run wrote.
C5_RerunIsIdempotent ==
    pc = Done /\ runs >= 2 =>
        \A p \in OutputPaths : fs[p].exists /\ fs[p] = first[p]

\* a second run of main() has completed after a completed first run
C5_Witness ==
    /\ pc = Done
    /\ runs = 2
    /\ \A p \in OutputPaths : first[p].exists
    /\ fs[ReadmePath] = File(readme_content)

\* the order of the outputs that C6 states
ClaimedOrder ==
    [i \in 1..Len(devices_data) |-> HostVarsPath(devices_data[i].hostname)]
    \o <<GroupVarsPath, InventoryPath, ReadmePath>>

PositionOf(path) == CHOOSE k \in 1..Len(ClaimedOrder) : ClaimedOrder[k] = path
NumWritten == Cardinality({p \in OutputPaths : wrote[p].written})

\* in a failed run: the outputs before the failing step are complete and hold
\* what the run wrote, the outputs after it are as they were when the run began
C6_FailedState ==
    pc.status = "failed" =>
        LET k == PositionOf(PathAt(pc))
        IN  /\ \A j \in 1..(k - 1) :
                   /\ wrote[ClaimedOrder[j]].written
                   /\ fs[ClaimedOrder[j]] = File(wrote[ClaimedOrder[j]].data)
            /\ \A j \in k..Len(ClaimedOrder) : ~wrote[ClaimedOrder[j]].written
            /\ \A j \in (k + 1)..Len(ClaimedOrder) :
                   fs[ClaimedOrder[j]] = before[ClaimedOrder[j]]
            /\ pc.step = "mkdir" => fs[ClaimedOrder[k]] = before[ClaimedOrder[k]]

\* a step of a run touches only the next output of the stated order, and
\* completes the outputs one by one in that order
C6_StepInOrder ==
    pc.status = "running" =>
        \A p \in OutputPaths :
            /\ fs'[p] # fs[p] => p = ClaimedOrder[NumWritten + 1]
            /\ wrote'[p] # wrote[p] =>
                   /\ p = ClaimedOrder[NumWritten + 1]
                   /\ fs'[p] = File(wrote'[p].data)

\* a failed run takes no further step: no retry, no cleanup
C6_NoRetry == pc.status = "failed" => UNCHANGED vars

\* C6: the run writes host_vars/<hostname>.yml in catalog order, then
\* group_vars/all.yml, inventory.ini, README.md; a failing directory creation or
\* file write ends the run there, nothing later in the order is created or
\* changed, and every file completed earlier keeps what the run wrote.
C6_AbortOnFirstFailure ==
    /\ []C6_FailedState
    /\ [][C6_StepInOrder]_vars
    /\ [][C6_NoRetry]_vars

\* the write of inventory.ini failed half way, after group_vars/all.yml was
\* completed and while README.md is still as before the run
C6_Witness ==
    /\ pc.status = "failed"
    /\ pc.fn = "create_inventory_file"
    /\ wrote[GroupVarsPath].written
    /\ fs[InventoryPath].exists
    /\ fs[InventoryPath] # before[InventoryPath]
    /\ Len(fs[InventoryPath].data) > 0
    /\ fs[ReadmePath] = before[ReadmePath]

\* C8: whatever the device list, the written inventory has the sections
\* [superspines], [spines], [leafs], [st1], [st2], [st3], so every group named as
\* a child of a :children declaration is a section of the file.
C8_ChildrenAreSections ==
    pc = Done /\ wrote[InventoryPath].written =>
        /\ TypeSections \cup {"st1", "st2", "st3"} \subseteq SectionNames(Inventory)
        /\ ChildrenNamed(Inventory) \subseteq SectionNames(Inventory)

====
